---- MODULE Spec2Model ----
(***************************************************************************)
(* Model of fromenv-derive/src/field.rs: FromEnvFieldReceiver::from_field  *)
(* (the per-field attribute parser and the rule table that resolves the    *)
(* six option slots into an EnvAttribute) and parse_option (the syntactic  *)
(* Option<T> detector).                                                    *)
(*                                                                         *)
(* Encoding.  Rust Option<X> is a sequence of length 0 (None) or 1         *)
(* (Some(x)).  Strings and identifiers are sequences of characters.  A     *)
(* span is the position of the attribute or sub-item in the field's        *)
(* annotation text (1, 2, ...); Span::call_site() is CallSite.  LitStr     *)
(* values are compared by content, as syn compares them, so the span of a  *)
(* LitStr is not part of its value.                                        *)
(***************************************************************************)
EXTENDS Integers, Sequences, FiniteSets, TLC

VARIABLES
    ident,              \* field.ident
    ty,                 \* field.ty
    option,             \* parse_option(&ty)
    from,               \* Option<Override<LitStr>>
    rename,             \* Option<Override<LitStr>>
    default,            \* Option<LitStr>
    with,               \* Option<ExprPath>
    nested,             \* Flag: Option<Span>
    ignored,            \* Flag: Option<Span>
    default_path_span,  \* Span
    doc_attrs,          \* Vec<Attribute>, each attribute named by its span
    accumulator,        \* darling::Error::accumulator(): Vec<Error>
    pc,                 \* position in from_field
    inList,             \* TRUE while iterating nested_meta_list of an env block
    pos,                \* number of attributes and sub-items consumed so far
    cur,                \* the attribute / sub-item taken by the last iteration
    limit,              \* how many attributes and sub-items the field may carry
    result              \* darling::Result<Self>

vars == <<ident, ty, option, from, rename, default, with, nested, ignored,
          default_path_span, doc_attrs, accumulator, pc, inList, pos, cur,
          limit, result>>

slots == <<from, rename, default, with, nested, ignored>>

-----------------------------------------------------------------------------
(* Bounds *)

MaxPos == 4     \* attributes plus sub-items of one field
MaxArgs == 2    \* generic arguments of one path segment

-----------------------------------------------------------------------------
(* Option, Override, Flag, Span *)

None == <<>>
Some(x) == <<x>>
IsSome(o) == o # <<>>
Unwrap(o) == o[1]

Inherit == [explicit |-> FALSE, value |-> <<>>]
Explicit(v) == [explicit |-> TRUE, value |-> v]

CallSite == 0

-----------------------------------------------------------------------------
(* Types and parse_option *)

GenericArgs ==
    { [kind |-> "Type", name |-> "T"], [kind |-> "Type", name |-> "U"],
      [kind |-> "Lifetime", name |-> "'a"], [kind |-> "Const", name |-> "N"] }

RECURSIVE SeqsUpTo(_, _)
SeqsUpTo(S, n) ==
    IF n = 0 THEN { <<>> }
    ELSE LET shorter == SeqsUpTo(S, n - 1)
         IN  shorter \cup { Append(s, x) : s \in shorter, x \in S }

Segment(id, arguments, args) == [ident |-> id, arguments |-> arguments, args |-> args]

LastSegments ==
    { Segment(id, "None", <<>>) : id \in {"Option", "Vec"} }
    \cup { Segment(id, "Parenthesized", <<>>) : id \in {"Option", "Vec"} }
    \cup { Segment(id, "AngleBracketed", a) :
             id \in {"Option", "Vec"}, a \in SeqsUpTo(GenericArgs, MaxArgs) }

Prefixes ==
    { <<>>,
      << Segment("std", "None", <<>>) >>,
      << Segment("Option", "AngleBracketed", << [kind |-> "Type", name |-> "T"] >>) >> }

PathType(segments) == [path |-> TRUE, segments |-> segments]
OtherType == [path |-> FALSE, segments |-> <<>>]     \* &T, (A, B), [T; N], ...

Types ==
    { OtherType, PathType(<<>>) }
    \cup { PathType(p \o <<s>>) : p \in Prefixes, s \in LastSegments }

StringTy == PathType(<< Segment("String", "None", <<>>) >>)
OptionTy == PathType(<< Segment("Option", "AngleBracketed",
                                << [kind |-> "Type", name |-> "T"] >>) >>)

FieldTypes == { StringTy, OptionTy }

parse_option_first_arg(t) ==
    IF ~t.path THEN None
    ELSE IF t.segments = <<>> THEN None
    ELSE LET segment == t.segments[Len(t.segments)]
         IN  IF segment.ident # "Option" THEN None
             ELSE IF segment.arguments # "AngleBracketed" THEN None
             ELSE IF Len(segment.args) >= 1 /\ segment.args[1].kind = "Type"
                  THEN Some(segment.args[1].name)
                  ELSE None

parse_option(t) ==
    IF ~t.path THEN None
    ELSE IF t.segments = <<>> THEN None
    ELSE LET segment == t.segments[Len(t.segments)]
         IN  IF segment.ident # "Option" THEN None
             ELSE IF segment.arguments # "AngleBracketed" THEN None
             ELSE IF Len(segment.args) = 1 /\ segment.args[1].kind = "Type"
                  THEN Some(segment.args[1].name)
                  ELSE None

-----------------------------------------------------------------------------
(* Identifiers, literals and upper-casing *)

Idents == { <<"a">>, <<"b", "sharp_s">> }
LitVals == { <<"A">>, <<"a">> }
PathVals == { <<"f">> }

\* char::to_uppercase: one character may become several ("sharp_s" is U+00DF)
UpperOf(c) ==
    CASE c = "a" -> <<"A">>
      [] c = "b" -> <<"B">>
      [] c = "f" -> <<"F">>
      [] c = "sharp_s" -> <<"S", "S">>
      [] OTHER   -> <<c>>

to_uppercase_identity(s) == s

RECURSIVE to_uppercase(_)
to_uppercase(s) ==
    IF s = <<>> THEN <<>> ELSE UpperOf(Head(s)) \o to_uppercase(Tail(s))

default_name == to_uppercase(ident)

-----------------------------------------------------------------------------
(* Sub-item values and FromMeta::from_meta for the four slot types *)

Word == [shape |-> "Word", s |-> <<>>]          \* name
IntVal == [shape |-> "Int", s |-> <<>>]         \* name = 3
StrVal(v) == [shape |-> "Str", s |-> v]         \* name = "v"
PathVal(p) == [shape |-> "Path", s |-> p]       \* name = p

Values == { Word, IntVal } \cup { StrVal(v) : v \in LitVals }
                           \cup { PathVal(p) : p \in PathVals }

\* Override<LitStr>: a bare word inherits, a string literal is explicit
OverrideFromMeta(val) ==
    CASE val.shape = "Word" -> Some(Inherit)
      [] val.shape = "Str"  -> Some(Explicit(val.s))
      [] OTHER              -> None

\* LitStr: only a string literal
LitStrFromMeta(val) ==
    IF val.shape = "Str" THEN Some(val.s) ELSE None

\* ExprPath: a path expression, or a string literal that parses as a path
ExprPathFromMeta(val) ==
    CASE val.shape = "Path" -> Some(val.s)
      [] val.shape = "Str"  -> Some(val.s)
      [] OTHER              -> None

\* Flag: only the bare word
FlagFromMeta(val, span) ==
    IF val.shape = "Word" THEN Some(Some(span)) ELSE None

-----------------------------------------------------------------------------
(* Diagnostics and the accumulator (messages without their backquotes) *)

IGNORED_CLASH == "ignored cannot be used with other attributes"
NESTED_CLASH == "nested cannot be used with other attributes"
OPTION_WIH_DEFAULT == "Optional fields cannot have a default"

Error(kind, msg, span) == [kind |-> kind, msg |-> msg, span |-> span]

Push(acc, e) == Append(acc, e)

NoAttr == [variant |-> "-", name |-> <<>>, from |-> None, default |-> None, with |-> None]
Pending == [status |-> "pending", env_attr |-> NoAttr, errors |-> <<>>]

finish_with_always_ok(acc, env_attr) ==
    [status |-> "ok", env_attr |-> env_attr, errors |-> <<>>]

\* Accumulator::finish_with: Ok(value) iff no error was pushed
finish_with(acc, env_attr) ==
    IF acc = <<>>
    THEN [status |-> "ok", env_attr |-> env_attr, errors |-> <<>>]
    ELSE [status |-> "err", env_attr |-> NoAttr, errors |-> acc]

\* accumulator.finish().unwrap_err() after a push
finish_unwrap_err(acc) == [status |-> "err", env_attr |-> NoAttr, errors |-> acc]

-----------------------------------------------------------------------------
(* The attribute / sub-item taken by one loop iteration *)

NoCur == [kind |-> "none", name |-> "", value |-> Word]
AttrCur(kind) == [kind |-> kind, name |-> "", value |-> Word]
MetaCur(name, val) == [kind |-> "meta", name |-> name, value |-> val]
LitCur == [kind |-> "lit", name |-> "", value |-> Word]

OptionNames == {"from", "rename", "default", "with", "nested", "ignored"}

-----------------------------------------------------------------------------
(* Initial states *)

InitLocals ==
    /\ option = None
    /\ from = None
    /\ rename = None
    /\ default = None
    /\ with = None
    /\ nested = None
    /\ ignored = None
    /\ default_path_span = CallSite
    /\ doc_attrs = <<>>
    /\ accumulator = <<>>
    /\ pc = "start"
    /\ inList = FALSE
    /\ pos = 0
    /\ cur = NoCur
    /\ result = Pending

Init ==
    /\ ident \in Idents
    /\ ty \in FieldTypes
    /\ limit = MaxPos
    /\ InitLocals

-----------------------------------------------------------------------------
(* from_field, lines 37-56 *)

Start ==
    /\ pc = "start"
    /\ option' = parse_option(ty)
    /\ pc' = "attrs"
    /\ UNCHANGED <<ident, ty, slots, default_path_span, doc_attrs, accumulator,
                   inList, pos, cur, limit, result>>

-----------------------------------------------------------------------------
(* for attr in &field.attrs *)

NextAttr == pc = "attrs" /\ pos < limit
NextMeta == pc = "attrs" /\ pos < limit /\ inList

\* #[env] or #[env = ...]: require_list fails
AttrEnvNotList ==
    /\ NextAttr
    /\ pos' = pos + 1
    /\ cur' = AttrCur("env_not_list")
    /\ inList' = FALSE
    /\ accumulator' = Push(accumulator, Error("Structural", "expected list", pos + 1))
    /\ UNCHANGED <<ident, ty, option, slots, default_path_span, doc_attrs, pc,
                   limit, result>>

\* #[env(...)] whose tokens are not a meta list: parse_meta_list fails
AttrEnvUnparsable ==
    /\ NextAttr
    /\ pos' = pos + 1
    /\ cur' = AttrCur("env_unparsable")
    /\ inList' = FALSE
    /\ accumulator' = Push(accumulator, Error("Structural", "syntax", pos + 1))
    /\ UNCHANGED <<ident, ty, option, slots, default_path_span, doc_attrs, pc,
                   limit, result>>

\* #[env(...)] that parses: its sub-items are iterated next
AttrEnvList ==
    /\ NextAttr
    /\ pos' = pos + 1
    /\ cur' = AttrCur("env_list")
    /\ inList' = TRUE
    /\ UNCHANGED <<ident, ty, option, slots, default_path_span, doc_attrs,
                   accumulator, pc, limit, result>>

\* #[doc = "..."]
AttrDoc ==
    /\ NextAttr
    /\ pos' = pos + 1
    /\ cur' = AttrCur("doc")
    /\ inList' = FALSE
    /\ doc_attrs' = Append(doc_attrs, pos + 1)
    /\ UNCHANGED <<ident, ty, option, slots, default_path_span, accumulator, pc,
                   limit, result>>

\* any other attribute
AttrOther ==
    /\ NextAttr
    /\ pos' = pos + 1
    /\ cur' = AttrCur("other")
    /\ inList' = FALSE
    /\ UNCHANGED <<ident, ty, option, slots, default_path_span, doc_attrs,
                   accumulator, pc, limit, result>>

-----------------------------------------------------------------------------
(* for meta in nested_meta_list *)

ValueShapeError(span) == Error("ValueShape", "from_meta", span)

MetaLit ==
    /\ NextMeta
    /\ pos' = pos + 1
    /\ cur' = LitCur
    /\ accumulator' = Push(accumulator, Error("UnexpectedLit", "unexpected literal", pos + 1))
    /\ UNCHANGED <<ident, ty, option, slots, default_path_span, doc_attrs, pc,
                   inList, limit, result>>

MetaFrom_clears ==
    /\ NextMeta
    /\ \E val \in Values :
         LET r == OverrideFromMeta(val) IN
         /\ pos' = pos + 1
         /\ cur' = MetaCur("from", val)
         /\ IF IsSome(r)
            THEN from' = Some(Unwrap(r)) /\ UNCHANGED accumulator
            ELSE /\ accumulator' = Push(accumulator, ValueShapeError(pos + 1))
                 /\ from' = None
    /\ UNCHANGED <<ident, ty, option, rename, default, with, nested, ignored,
                   default_path_span, doc_attrs, pc, inList, limit, result>>

MetaFrom ==
    /\ NextMeta
    /\ \E val \in Values :
         LET r == OverrideFromMeta(val) IN
         /\ pos' = pos + 1
         /\ cur' = MetaCur("from", val)
         /\ IF IsSome(r)
            THEN from' = Some(Unwrap(r)) /\ UNCHANGED accumulator
            ELSE /\ accumulator' = Push(accumulator, ValueShapeError(pos + 1))
                 /\ UNCHANGED from
    /\ UNCHANGED <<ident, ty, option, rename, default, with, nested, ignored,
                   default_path_span, doc_attrs, pc, inList, limit, result>>

MetaRename ==
    /\ NextMeta
    /\ \E val \in Values :
         LET r == OverrideFromMeta(val) IN
         /\ pos' = pos + 1
         /\ cur' = MetaCur("rename", val)
         /\ IF IsSome(r)
            THEN rename' = Some(Unwrap(r)) /\ UNCHANGED accumulator
            ELSE /\ accumulator' = Push(accumulator, ValueShapeError(pos + 1))
                 /\ UNCHANGED rename
    /\ UNCHANGED <<ident, ty, option, from, default, with, nested, ignored,
                   default_path_span, doc_attrs, pc, inList, limit, result>>

MetaDefault ==
    /\ NextMeta
    /\ \E val \in Values :
         LET r == LitStrFromMeta(val) IN
         /\ pos' = pos + 1
         /\ cur' = MetaCur("default", val)
         /\ default_path_span' = pos + 1
         /\ IF IsSome(r)
            THEN default' = Some(Unwrap(r)) /\ UNCHANGED accumulator
            ELSE /\ accumulator' = Push(accumulator, ValueShapeError(pos + 1))
                 /\ UNCHANGED default
    /\ UNCHANGED <<ident, ty, option, from, rename, with, nested, ignored,
                   doc_attrs, pc, inList, limit, result>>

MetaWith ==
    /\ NextMeta
    /\ \E val \in Values :
         LET r == ExprPathFromMeta(val) IN
         /\ pos' = pos + 1
         /\ cur' = MetaCur("with", val)
         /\ IF IsSome(r)
            THEN with' = Some(Unwrap(r)) /\ UNCHANGED accumulator
            ELSE /\ accumulator' = Push(accumulator, ValueShapeError(pos + 1))
                 /\ UNCHANGED with
    /\ UNCHANGED <<ident, ty, option, from, rename, default, nested, ignored,
                   default_path_span, doc_attrs, pc, inList, limit, result>>

MetaNested ==
    /\ NextMeta
    /\ \E val \in Values :
         LET r == FlagFromMeta(val, pos + 1) IN
         /\ pos' = pos + 1
         /\ cur' = MetaCur("nested", val)
         /\ IF IsSome(r)
            THEN nested' = Unwrap(r) /\ UNCHANGED accumulator
            ELSE /\ accumulator' = Push(accumulator, ValueShapeError(pos + 1))
                 /\ UNCHANGED nested
    /\ UNCHANGED <<ident, ty, option, from, rename, default, with, ignored,
                   default_path_span, doc_attrs, pc, inList, limit, result>>

MetaIgnored ==
    /\ NextMeta
    /\ \E val \in Values :
         LET r == FlagFromMeta(val, pos + 1) IN
         /\ pos' = pos + 1
         /\ cur' = MetaCur("ignored", val)
         /\ IF IsSome(r)
            THEN ignored' = Unwrap(r) /\ UNCHANGED accumulator
            ELSE /\ accumulator' = Push(accumulator, ValueShapeError(pos + 1))
                 /\ UNCHANGED ignored
    /\ UNCHANGED <<ident, ty, option, from, rename, default, with, nested,
                   default_path_span, doc_attrs, pc, inList, limit, result>>

MetaUnknown_fail_fast ==
    /\ NextMeta
    /\ \E val \in Values :
         /\ pos' = pos + 1
         /\ cur' = MetaCur("other", val)
         /\ accumulator' = Push(accumulator, Error("UnknownOption", "unknown field", pos + 1))
         /\ pc' = "match"
    /\ UNCHANGED <<ident, ty, option, slots, default_path_span, doc_attrs,
                   inList, limit, result>>

MetaUnknown ==
    /\ NextMeta
    /\ \E val \in Values :
         /\ pos' = pos + 1
         /\ cur' = MetaCur("other", val)
         /\ accumulator' = Push(accumulator, Error("UnknownOption", "unknown field", pos + 1))
    /\ UNCHANGED <<ident, ty, option, slots, default_path_span, doc_attrs, pc,
                   inList, limit, result>>

\* field.attrs is exhausted
EndOfAttrs ==
    /\ pc = "attrs"
    /\ pc' = "match"
    /\ UNCHANGED <<ident, ty, option, slots, default_path_span, doc_attrs,
                   accumulator, inList, pos, cur, limit, result>>

-----------------------------------------------------------------------------
(* match (from, rename, default, with, nested.is_present(), ignored.is_present()) *)

\* lines 151-155
IgnoredClashPattern ==
    /\ IsSome(ignored)
    /\ \/ IsSome(from)
       \/ IsSome(rename)
       \/ IsSome(default)
       \/ IsSome(with)
       \/ IsSome(nested)

\* lines 160-163
NestedClashPattern_without_with ==
    /\ IsSome(nested)
    /\ \/ IsSome(from)
       \/ IsSome(rename)
       \/ IsSome(default)

NestedClashPattern ==
    /\ IsSome(nested)
    /\ \/ IsSome(from)
       \/ IsSome(rename)
       \/ IsSome(default)
       \/ IsSome(with)

\* line 168
NonePattern ==
    /\ from = None /\ rename = None /\ default = None /\ with = None
    /\ ~IsSome(nested) /\ IsSome(ignored)

\* line 175
NestedPattern ==
    /\ from = None /\ rename = None /\ default = None /\ with = None
    /\ IsSome(nested) /\ ~IsSome(ignored)

\* line 182
FlatPattern == ~IsSome(nested) /\ ~IsSome(ignored)

Flat(name, f, d, w) ==
    [variant |-> "Flat", name |-> name, from |-> f, default |-> d, with |-> w]
NestedAttr == [NoAttr EXCEPT !.variant = "Nested"]
NoneAttr == [NoAttr EXCEPT !.variant = "None"]

\* Override::unwrap_or_else
unwrap_or_else(ov, dflt) == IF ov.explicit THEN ov.value ELSE dflt

ArmFrame == UNCHANGED <<ident, ty, option, slots, default_path_span, doc_attrs,
                        inList, pos, cur, limit>>

ArmIgnoredClash_nested_span ==
    /\ pc = "match"
    /\ IgnoredClashPattern
    /\ accumulator' = Push(accumulator,
                           Error("Conflict", IGNORED_CLASH,
                                 IF IsSome(nested) THEN Unwrap(nested) ELSE CallSite))
    /\ result' = finish_unwrap_err(accumulator')
    /\ pc' = "ignored_clash"
    /\ ArmFrame

ArmIgnoredClash ==
    /\ pc = "match"
    /\ IgnoredClashPattern
    /\ accumulator' = Push(accumulator,
                           Error("Conflict", IGNORED_CLASH, Unwrap(ignored)))
    /\ result' = finish_unwrap_err(accumulator')
    /\ pc' = "ignored_clash"
    /\ ArmFrame

ArmNestedClash_falls_through ==
    /\ pc = "match"
    /\ ~IgnoredClashPattern
    /\ NestedClashPattern
    /\ accumulator' =
         IF IsSome(option) /\ IsSome(default)
         THEN Push(Push(accumulator, Error("Conflict", NESTED_CLASH, Unwrap(nested))),
                   Error("Invariant", OPTION_WIH_DEFAULT, default_path_span))
         ELSE Push(accumulator, Error("Conflict", NESTED_CLASH, Unwrap(nested)))
    /\ result' = finish_unwrap_err(accumulator')
    /\ pc' = "nested_clash"
    /\ ArmFrame

ArmNestedClash ==
    /\ pc = "match"
    /\ ~IgnoredClashPattern
    /\ NestedClashPattern
    /\ accumulator' = Push(accumulator,
                           Error("Conflict", NESTED_CLASH, Unwrap(nested)))
    /\ result' = finish_unwrap_err(accumulator')
    /\ pc' = "nested_clash"
    /\ ArmFrame

ArmNone ==
    /\ pc = "match"
    /\ ~IgnoredClashPattern
    /\ ~NestedClashPattern
    /\ NonePattern
    /\ result' = finish_with(accumulator, NoneAttr)
    /\ pc' = "none"
    /\ UNCHANGED accumulator
    /\ ArmFrame

ArmNested ==
    /\ pc = "match"
    /\ ~IgnoredClashPattern
    /\ ~NestedClashPattern
    /\ ~NonePattern
    /\ NestedPattern
    /\ result' = finish_with(accumulator, NestedAttr)
    /\ pc' = "nested"
    /\ UNCHANGED accumulator
    /\ ArmFrame

ArmFlat_no_option_check ==
    /\ pc = "match"
    /\ ~IgnoredClashPattern
    /\ ~NestedClashPattern
    /\ ~NonePattern
    /\ ~NestedPattern
    /\ FlatPattern
    /\ UNCHANGED accumulator
    /\ LET name == IF rename = None THEN default_name
                   ELSE unwrap_or_else(Unwrap(rename), default_name)
           from_ == IF from = None THEN None
                    ELSE Some(unwrap_or_else(Unwrap(from), default_name))
       IN  result' = finish_with(accumulator', Flat(name, from_, default, with))
    /\ pc' = "flat"
    /\ ArmFrame

ArmFlat ==
    /\ pc = "match"
    /\ ~IgnoredClashPattern
    /\ ~NestedClashPattern
    /\ ~NonePattern
    /\ ~NestedPattern
    /\ FlatPattern
    /\ accumulator' =
         IF IsSome(option) /\ IsSome(default)
         THEN Push(accumulator, Error("Invariant", OPTION_WIH_DEFAULT, default_path_span))
         ELSE accumulator
    /\ LET name == IF rename = None THEN default_name
                   ELSE unwrap_or_else(Unwrap(rename), default_name)
           from_ == IF from = None THEN None
                    ELSE Some(unwrap_or_else(Unwrap(from), default_name))
       IN  result' = finish_with(accumulator', Flat(name, from_, default, with))
    /\ pc' = "flat"
    /\ ArmFrame

Arms == {"ignored_clash", "nested_clash", "none", "nested", "flat"}
Done == pc \in Arms

-----------------------------------------------------------------------------
(* Specifications *)

Next ==
    \/ Start
    \/ AttrEnvNotList
    \/ AttrEnvUnparsable
    \/ AttrEnvList
    \/ AttrDoc
    \/ AttrOther
    \/ MetaLit
    \/ MetaFrom
    \/ MetaRename
    \/ MetaDefault
    \/ MetaWith
    \/ MetaNested
    \/ MetaIgnored
    \/ MetaUnknown
    \/ EndOfAttrs
    \/ ArmIgnoredClash
    \/ ArmNestedClash
    \/ ArmNone
    \/ ArmNested
    \/ ArmFlat

Spec == Init /\ [][Next]_vars

\* parse_option over every type shape
InitType ==
    /\ ident \in {<<"a">>}
    /\ ty \in Types
    /\ limit = 0
    /\ InitLocals

NextType == Start

SpecType == InitType /\ [][NextType]_vars

\* One env block whose sub-items are well formed, each option at most once,
\* in the order of OptionOrder: every combination of the six slots.
OptionOrder == <<"from", "rename", "default", "with", "nested", "ignored">>
TableLen == Len(OptionOrder) + 1

Rank(name) ==
    IF \E i \in DOMAIN OptionOrder : OptionOrder[i] = name
    THEN CHOOSE i \in DOMAIN OptionOrder : OptionOrder[i] = name
    ELSE 0

Canonical == accumulator' = accumulator /\ Rank(cur.name) < Rank(cur'.name)

TableOpen == pos = 0 /\ AttrEnvList
TableFrom == MetaFrom /\ Canonical
TableRename == MetaRename /\ Canonical
TableDefault == MetaDefault /\ Canonical
TableWith == MetaWith /\ Canonical
TableNested == MetaNested /\ Canonical
TableIgnored == MetaIgnored /\ Canonical

InitTable ==
    /\ ident \in Idents
    /\ ty \in FieldTypes
    /\ limit = TableLen
    /\ InitLocals

NextTable ==
    \/ Start
    \/ TableOpen
    \/ TableFrom
    \/ TableRename
    \/ TableDefault
    \/ TableWith
    \/ TableNested
    \/ TableIgnored
    \/ EndOfAttrs
    \/ ArmIgnoredClash
    \/ ArmNestedClash
    \/ ArmNone
    \/ ArmNested
    \/ ArmFlat

SpecTable == InitTable /\ [][NextTable]_vars

-----------------------------------------------------------------------------
(* Vocabulary of the properties *)

OfKind(errs, kind) == { i \in DOMAIN errs : errs[i].kind = kind }

AnyValueSlot == IsSome(from) \/ IsSome(rename) \/ IsSome(default) \/ IsSome(with)

SlotPresent(name) ==
    CASE name = "from"    -> IsSome(from)
      [] name = "rename"  -> IsSome(rename)
      [] name = "default" -> IsSome(default)
      [] name = "with"    -> IsSome(with)
      [] name = "nested"  -> IsSome(nested)
      [] name = "ignored" -> IsSome(ignored)
      [] OTHER            -> FALSE

\* the value shapes each slot accepts
ShapeOk(name, val) ==
    CASE name \in {"from", "rename"}    -> val.shape \in {"Word", "Str"}
      [] name = "default"               -> val.shape = "Str"
      [] name = "with"                  -> val.shape \in {"Path", "Str"}
      [] name \in {"nested", "ignored"} -> val.shape = "Word"
      [] OTHER                          -> FALSE

Malformed(c) == c.kind = "meta" /\ c.name \in OptionNames /\ ~ShapeOk(c.name, c.value)

Offending(c) ==
    \/ c.kind \in {"env_not_list", "env_unparsable", "lit"}
    \/ c.kind = "meta" /\ c.name \notin OptionNames
    \/ Malformed(c)

IsPrefix(s, t) == Len(s) <= Len(t) /\ SubSeq(t, 1, Len(s)) = s

\* the loop took one more attribute or sub-item in this step
Took == pc = "attrs" /\ pos' = pos + 1

UpperCased ==
    CASE ident = <<"a">>            -> <<"A">>
      [] ident = <<"b", "sharp_s">> -> <<"B", "S", "S">>

-----------------------------------------------------------------------------
(* C1: a field whose ignored slot is set together with any of from, rename, *)
(* default, with or nested fails with exactly one ConflictError; it carries *)
(* the ignored message and the span of ignored, it is the last diagnostic   *)
(* reported, and the nested message is never emitted.                       *)
C1_IgnoredClash ==
    (Done /\ IsSome(ignored) /\ (AnyValueSlot \/ IsSome(nested))) =>
        /\ pc = "ignored_clash"
        /\ result.status = "err"
        /\ Cardinality(OfKind(result.errors, "Conflict")) = 1
        /\ result.errors[Len(result.errors)] =
               Error("Conflict", IGNORED_CLASH, Unwrap(ignored))
        /\ Unwrap(ignored) \in 1..pos
        /\ \A i \in DOMAIN result.errors : result.errors[i].msg # NESTED_CLASH
        /\ OfKind(result.errors, "Invariant") = {}

C1_Witness ==
    /\ pc = "ignored_clash"
    /\ IsSome(nested) /\ IsSome(default) /\ IsSome(option)
    /\ Unwrap(ignored) < Unwrap(nested)
    /\ Len(result.errors) = 1

(* C2 as stated: on an Option-typed field with default set, whatever the   *)
(* other five slots hold, from_field fails and reports exactly one         *)
(* InvariantViolation.                                                     *)
C2_Original ==
    (Done /\ IsSome(option) /\ IsSome(default)) =>
        /\ result.status = "err"
        /\ Cardinality(OfKind(result.errors, "Invariant")) = 1

(* C2 amended: on an Option-typed field with default set, from_field       *)
(* fails; with nested and ignored both absent it reports exactly one       *)
(* InvariantViolation (Optional fields cannot have a default, spanned at   *)
(* the last default sub-item); with nested or ignored present it reports   *)
(* exactly one ConflictError and no InvariantViolation.                    *)
C2_OptionWithDefault ==
    (Done /\ IsSome(option) /\ IsSome(default)) =>
        /\ result.status = "err"
        /\ IF IsSome(nested) \/ IsSome(ignored)
           THEN /\ OfKind(result.errors, "Invariant") = {}
                /\ Cardinality(OfKind(result.errors, "Conflict")) = 1
           ELSE /\ Cardinality(OfKind(result.errors, "Invariant")) = 1
                /\ OfKind(result.errors, "Conflict") = {}
                /\ result.errors[Len(result.errors)] =
                       Error("Invariant", OPTION_WIH_DEFAULT, default_path_span)
                /\ default_path_span \in 1..pos

C2_Witness ==
    /\ pc = "flat"
    /\ IsSome(option) /\ IsSome(default) /\ IsSome(from) /\ IsSome(with)
    /\ Len(result.errors) = 1

(* C3: a second occurrence of an option whose slot is already set records  *)
(* an error.                                                               *)
C3_DuplicateIsError ==
    [][(Took /\ cur'.kind = "meta" /\ SlotPresent(cur'.name))
          => Len(accumulator') > Len(accumulator)]_vars

(* C4: from_field returns a configuration iff no diagnostic was recorded;  *)
(* otherwise it returns none and reports exactly the recorded diagnostics: *)
(* nothing once recorded is ever dropped, on any arm of the rule table.    *)
C4_Returned ==
    Done =>
        /\ result.status \in {"ok", "err"}
        /\ result.status = "ok" <=> accumulator = <<>>
        /\ result.status = "ok" <=> result.env_attr.variant \in {"Flat", "Nested", "None"}
        /\ result.status = "err" => result.errors = accumulator
        /\ result.status = "ok" => result.errors = <<>>

C4_AllDiagnosticsReported ==
    /\ []C4_Returned
    /\ [][IsPrefix(accumulator, accumulator')]_vars

C4_Witness ==
    /\ pc = "nested_clash"
    /\ Len(result.errors) = 2
    /\ result.errors[1].kind = "ValueShape"
    /\ result.errors[2].kind = "Conflict"

(* C5: in Flat resolution name is the explicit value of rename, or the     *)
(* upper-cased identifier when rename is bare or absent; from is absent    *)
(* when the slot is absent, else its explicit value, or the upper-cased    *)
(* identifier when bare; default and with are passed through.  So bare     *)
(* from equals from = "<upper-cased identifier>".                          *)
C5_FlatResolution ==
    (pc = "flat" /\ result.status = "ok") =>
        /\ result.env_attr.variant = "Flat"
        /\ result.env_attr.name =
               IF IsSome(rename) /\ Unwrap(rename).explicit
               THEN Unwrap(rename).value ELSE UpperCased
        /\ result.env_attr.from =
               IF from = None THEN None
               ELSE IF Unwrap(from).explicit THEN Some(Unwrap(from).value)
               ELSE Some(UpperCased)
        /\ result.env_attr.default = default
        /\ result.env_attr.with = with
        /\ (from = Some(Inherit)) =>
               result.env_attr = [result.env_attr EXCEPT !.from = Some(UpperCased)]

C5_Witness ==
    /\ pc = "flat" /\ result.status = "ok"
    /\ ident = <<"b", "sharp_s">>
    /\ from = Some(Inherit)
    /\ rename = Some(Explicit(<<"a">>))
    /\ IsSome(default) /\ IsSome(with)

(* C6: a field whose nested slot is set together with any of from, rename, *)
(* default or with, and whose ignored slot is not set, fails with exactly  *)
(* one ConflictError carrying the nested message and the span of nested;   *)
(* the arm is terminal: no Flat resolution, no Option-with-default check.  *)
C6_NestedClash ==
    (Done /\ IsSome(nested) /\ ~IsSome(ignored) /\ AnyValueSlot) =>
        /\ pc = "nested_clash"
        /\ result.status = "err"
        /\ Cardinality(OfKind(result.errors, "Conflict")) = 1
        /\ result.errors[Len(result.errors)] =
               Error("Conflict", NESTED_CLASH, Unwrap(nested))
        /\ Unwrap(nested) \in 1..pos
        /\ OfKind(result.errors, "Invariant") = {}
        /\ result.env_attr = NoAttr

C6_Witness ==
    /\ pc = "nested_clash"
    /\ IsSome(option) /\ IsSome(default) /\ IsSome(rename)
    /\ Len(result.errors) = 1

(* C7: the rule table is total and mutually exclusive: at the match exactly *)
(* one arm applies, and the arm taken is ignored-conflict iff ignored and   *)
(* another slot are set, nested-conflict iff nested and a value slot are    *)
(* set and ignored is not, None iff only ignored, Nested iff only nested,   *)
(* Flat iff neither nested nor ignored.  With no slot set and nothing       *)
(* recorded the result is Flat{upper-cased identifier, absent x 3}.         *)
ArmsEnabled ==
    { a \in Arms :
        CASE a = "ignored_clash" -> ENABLED ArmIgnoredClash
          [] a = "nested_clash"  -> ENABLED ArmNestedClash
          [] a = "none"          -> ENABLED ArmNone
          [] a = "nested"        -> ENABLED ArmNested
          [] a = "flat"          -> ENABLED ArmFlat }

DispatchedNext ==
    CASE cur'.name = "from" ->
             from' = Some(IF cur'.value.shape = "Word" THEN Inherit
                          ELSE Explicit(cur'.value.s))
      [] cur'.name = "rename" ->
             rename' = Some(IF cur'.value.shape = "Word" THEN Inherit
                            ELSE Explicit(cur'.value.s))
      [] cur'.name = "default" -> default' = Some(cur'.value.s)
      [] cur'.name = "with"    -> with' = Some(cur'.value.s)
      [] cur'.name = "nested"  -> nested' = Some(pos')
      [] cur'.name = "ignored" -> ignored' = Some(pos')

C8_ParsingContinues ==
    [][pc = "attrs" =>
          /\ pc' \in {"attrs", "match"}
          /\ pc' = "match" => (pos' = pos /\ accumulator' = accumulator /\ slots' = slots)
          /\ Took => /\ Len(accumulator') =
                          Len(accumulator) + (IF Offending(cur') THEN 1 ELSE 0)
                     /\ IsPrefix(accumulator, accumulator')
                     /\ Offending(cur') => accumulator'[Len(accumulator')].span = pos'
          /\ (Took /\ cur'.kind = "meta" /\ ~Offending(cur')) => DispatchedNext]_vars

C8_Witness ==
    /\ pc = "attrs"
    /\ Len(accumulator) = 2
    /\ accumulator[1].kind = "UnknownOption"
    /\ accumulator[2].kind = "ValueShape"
    /\ accumulator[1].span = 2 /\ accumulator[2].span = 4
    /\ ignored = Some(3)

(* C9: parse_option answers Some(T) exactly for a path type whose last     *)
(* segment is named Option and has angle-bracketed arguments consisting of *)
(* exactly one argument that is a type, and T is that argument; every      *)
(* other type is Plain.                                                    *)
C9_ParseOption ==
    pc = "attrs" =>
        LET last == ty.segments[Len(ty.segments)]
            wrapper == /\ ty.path
                       /\ ty.segments # <<>>
                       /\ last.ident = "Option"
                       /\ last.arguments = "AngleBracketed"
                       /\ Len(last.args) = 1
                       /\ last.args[1].kind = "Type"
        IN  /\ IsSome(option) <=> wrapper
            /\ IsSome(option) => option = Some(last.args[1].name)
            /\ ~ty.path => option = None
            /\ (ty.path /\ ty.segments # <<>>) =>
                   /\ last.ident # "Option" => option = None
                   /\ last.arguments # "AngleBracketed" => option = None
                   /\ Len(last.args) # 1 => option = None

C9_Witness ==
    /\ pc = "attrs"
    /\ option = Some("U")
    /\ Len(ty.segments) = 2

(* C10: a sub-item whose value fails the shape check of its slot leaves    *)
(* all six slots as they were.  So a field with ignored (or nested) and    *)
(* only malformed occurrences of the other options takes the None (or      *)
(* Nested) arm, gets no ConflictError, and fails with just the value-shape *)
(* diagnostics.                                                            *)
C10_OnlyFlag ==
    (Done /\ ~AnyValueSlot /\ (IsSome(ignored) # IsSome(nested))) =>
        /\ pc = (IF IsSome(ignored) THEN "none" ELSE "nested")
        /\ OfKind(accumulator, "Conflict") = {}
        /\ OfKind(accumulator, "Invariant") = {}
        /\ accumulator # <<>> => (result.status = "err" /\ result.errors = accumulator)

C10_MalformedLeavesSlots ==
    /\ [][(Took /\ Malformed(cur')) => slots' = slots]_vars
    /\ []C10_OnlyFlag

C10_Witness ==
    /\ pc = "none"
    /\ result.status = "err"
    /\ Len(result.errors) = 2
    /\ \A i \in DOMAIN result.errors : result.errors[i].kind = "ValueShape"
    /\ cur = MetaCur("from", IntVal)

====
